---- MODULE Spec2Model ----
(***************************************************************************)
(* Model of library/compliance_policy.py: the reconciliation of one named  *)
(* OpenSCAP compliance policy against a Satellite server.                  *)
(*                                                                         *)
(* Encoding of Python/JSON values.  A value that may be None (JSON null)   *)
(* is a sequence of length at most one: None is <<>>, the value v is <<v>>.*)
(* A dict is a function from its keys to such values, so "key in dict" is  *)
(* "key \in DOMAIN dict".  A formatted message or URL is the tuple of the  *)
(* format string and its arguments.                                        *)
(***************************************************************************)
EXTENDS Integers, Sequences, FiniteSets, TLC

\* ------------------------------------------------------------------ bounds
\* Number of invocations of the module that are run one after the other.
MaxRuns == 2
\* Number of parameters in which a desired state differs from BaseParams.
MaxDev == 1
\* Length of the association lists the diff is applied to, and their IDs.
MaxLen == 2
MaxId == 2

Invs == 1..MaxRuns

\* ------------------------------------------------------------ Python values
None == <<>>
V(x) == <<x>>

\* the dict d updated with the items of e (d.update(e))
Update(d, e) ==
    [k \in DOMAIN d \cup DOMAIN e |-> IF k \in DOMAIN e THEN e[k] ELSE d[k]]

\* dict.get(key, default)
Get(d, k, default) == IF k \in DOMAIN d THEN d[k] ELSE default

\* Python truth value of a str, an int and a list (None is false for all)
TruthyStr(o) == o # None /\ o[1] # ""
TruthyInt(o) == o # None /\ o[1] # 0
TruthyList(o) == o # None /\ Len(o[1]) > 0

RECURSIVE Insert(_, _)
Insert(x, s) ==
    IF s = <<>> THEN <<x>>
    ELSE IF x <= Head(s) THEN <<x>> \o s
    ELSE <<Head(s)>> \o Insert(x, Tail(s))

\* sorted(list of int)
RECURSIVE sorted(_)
sorted(s) == IF s = <<>> THEN <<>> ELSE Insert(Head(s), sorted(Tail(s)))

\* [f(x) for x in s]
Map(s, f(_)) == [k \in 1..Len(s) |-> f(s[k])]

\* index of the first element of s that satisfies P, 0 when there is none:
\* "for x in s: if P(x): return ..."
FirstIndex(s, P(_)) ==
    LET hits == {k \in 1..Len(s) : P(s[k])}
    IN  IF hits = {} THEN 0 ELSE CHOOSE k \in hits : \A j \in hits : k <= j

\* index of the last element of s that satisfies P, 0 when there is none
LastIndex(s, P(_)) ==
    LET hits == {k \in 1..Len(s) : P(s[k])}
    IN  IF hits = {} THEN 0 ELSE CHOOSE k \in hits : \A j \in hits : k >= j

\* ---------------------------------------------------------------- endpoints
EP_POLICIES == "/api/v2/compliance/policies"
EP_SCAP_CONTENTS == "/api/v2/compliance/scap_contents"
EP_SCAP_PROFILES == "/api/v2/compliance/scap_content_profiles"
EP_ORGANIZATIONS == "/api/v2/organizations"
EP_LOCATIONS == "/api/v2/locations"
EP_HOSTGROUPS == "/api/v2/hostgroups"

\* one request handed to fetch_url: the method, the collection, the id
\* formatted into the path (None for the collection itself) and the body
Request(method, endpoint, id, data) ==
    [method |-> method, endpoint |-> endpoint, id |-> id, data |-> data]

IsMutating(r) == r.method \in {"POST", "PUT", "DELETE"}

\* value or fail_json: what a helper hands back to its caller
Ok(v) == [ok |-> TRUE, val |-> v, msg |-> <<>>]
Fail(m) == [ok |-> FALSE, val |-> <<>>, msg |-> m]

\* ------------------------------------------------- the server's inventories
\* The collections the server lists (the results of a 200 listing).
ScapContents ==
    << [id |-> V(1), title |-> V("C1")],
       [id |-> V(2), title |-> V("C2")],
       [id |-> V(3), title |-> V("C1")] >>

ScapContentProfiles ==
    << [id |-> V(11), profile_id |-> V("prof-x"),
        scap_content |-> V([id |-> V(1), title |-> V("C1")])],
       [id |-> V(21), profile_id |-> V("prof-x"),
        scap_content |-> V([id |-> V(2), title |-> V("C2")])],
       [id |-> V(22), profile_id |-> V("prof-y"),
        scap_content |-> V([id |-> V(2), title |-> V("C2")])],
       [id |-> V(31), profile_id |-> V("prof-q"),
        scap_content |-> V([id |-> V(3), title |-> V("C1")])],
       [id |-> V(40), profile_id |-> V("prof-y")] >>

Organizations ==
    << [id |-> 1, name |-> "Org1"], [id |-> 2, name |-> "Org2"] >>

Locations ==
    << [id |-> 1, name |-> "Loc1"], [id |-> 2, name |-> "Loc2"],
       [id |-> 3, name |-> "Loc1"] >>

Hostgroups ==
    << [id |-> 1, name |-> "hg-base", title |-> "hg-base"],
       [id |-> 2, name |-> "hg-rhel-9", title |-> "hg-base/hg-rhel-9"] >>

\* ------------------------------------------------------------- the library
\* _api_request and _get_all: the listing of a collection, given the status
\* the transport reports and the results a 200 response carries
get_all(endpoint, status, results) ==
    IF status = -1
    THEN Fail(<<"Connection to {0} failed", endpoint>>)
    ELSE IF status # 200
    THEN Fail(<<"Failed to query {0}: HTTP {1}", endpoint, status>>)
    ELSE Ok(results)

\* lookup = {item[key]: item['id'] for item in results}: a later item
\* replaces an earlier one with the same key
Lookup(results, key) ==
    [n \in {results[k][key] : k \in 1..Len(results)} |->
        LET HasKey(item) == item[key] = n
        IN  results[LastIndex(results, HasKey)].id]

\* resolve_loop with the fault of passing over a name that is not in lookup
RECURSIVE resolve_loop_skipping(_, _, _, _, _, _)
resolve_loop_skipping(lookup, names, k, ids, key, endpoint) ==
    IF k > Len(names) THEN Ok(ids)
    ELSE IF names[k] \notin DOMAIN lookup
    THEN resolve_loop_skipping(lookup, names, k + 1, ids, key, endpoint)
    ELSE resolve_loop_skipping(lookup, names, k + 1,
                               Append(ids, lookup[names[k]]), key, endpoint)

\* resolve_loop with the fault of putting each ID before the ones so far
RECURSIVE resolve_loop_prepending(_, _, _, _, _, _)
resolve_loop_prepending(lookup, names, k, ids, key, endpoint) ==
    IF k > Len(names) THEN Ok(ids)
    ELSE IF names[k] \notin DOMAIN lookup
    THEN Fail(<<"Could not find {0} '{1}' at {2}", key, names[k], endpoint>>)
    ELSE resolve_loop_prepending(lookup, names, k + 1,
                                 <<lookup[names[k]]>> \o ids, key, endpoint)

\* the loop of _resolve_ids from the k-th name on, ids being the IDs so far
RECURSIVE resolve_loop(_, _, _, _, _, _)
resolve_loop(lookup, names, k, ids, key, endpoint) ==
    IF k > Len(names) THEN Ok(ids)
    ELSE IF names[k] \notin DOMAIN lookup
    THEN Fail(<<"Could not find {0} '{1}' at {2}", key, names[k], endpoint>>)
    ELSE resolve_loop(lookup, names, k + 1, Append(ids, lookup[names[k]]),
                      key, endpoint)

resolve_ids(endpoint, names, key, status, results) ==
    LET r == get_all(endpoint, status, results)
    IN  IF ~r.ok THEN r
        ELSE resolve_loop(Lookup(r.val, key), names, 1, <<>>, key, endpoint)

\* find_policy with the fault of returning the last policy of that name
find_policy_last(name, status, listing) ==
    LET r == get_all(EP_POLICIES, status, listing)
        Named(policy) == policy.name = name
    IN  IF ~r.ok THEN r
        ELSE LET k == LastIndex(r.val, Named)
             IN  Ok(IF k = 0 THEN None ELSE V(r.val[k]))

\* the policy found (V(policy)) or None
find_policy(name, status, listing) ==
    LET r == get_all(EP_POLICIES, status, listing)
        Named(policy) == policy.name = name
    IN  IF ~r.ok THEN r
        ELSE LET k == FirstIndex(r.val, Named)
             IN  Ok(IF k = 0 THEN None ELSE V(r.val[k]))

resolve_scap_content(title, status) ==
    LET r == get_all(EP_SCAP_CONTENTS, status, ScapContents)
        Titled(content) == content.title = title
    IN  IF ~r.ok THEN r
        ELSE LET k == FirstIndex(r.val, Titled)
             IN  IF k = 0 THEN Fail(<<"SCAP content '{0}' not found", title>>)
                 ELSE Ok(r.val[k].id)

resolve_scap_profile(scap_content_title, profile_id, status) ==
    LET r == get_all(EP_SCAP_PROFILES, status, ScapContentProfiles)
        Matches(profile) ==
            /\ Get(Get(profile, "scap_content", V(<<>>))[1], "title", None)
                  = scap_content_title
            /\ Get(profile, "profile_id", None) = profile_id
    IN  IF ~r.ok THEN r
        ELSE LET k == FirstIndex(r.val, Matches)
             IN  IF k = 0
                 THEN Fail(<<"SCAP profile '{0}' not found in content '{1}'",
                             profile_id, scap_content_title>>)
                 ELSE Ok(r.val[k].id)

\* one resolution of _build_policy_payload after those in acc: reqs are the
\* requests it issues, r is its outcome; a fail_json ends the chain
Then(acc, reqs, r) ==
    IF ~acc.ok THEN acc
    ELSE [ok |-> r.ok, vals |-> Append(acc.vals, r.val), msg |-> r.msg,
          reqs |-> acc.reqs \o reqs]

Listing(endpoint) == <<Request("GET", endpoint, None, None)>>

\* resolve_all with the fault of resolving the locations before the
\* organizations
resolve_all_locations_first(p, st) ==
    LET s0 == [ok |-> TRUE, vals |-> <<>>, msg |-> <<>>, reqs |-> <<>>]
        s1 == Then(s0, Listing(EP_SCAP_CONTENTS),
                   resolve_scap_content(p.scap_content, st[1]))
        s2 == Then(s1, Listing(EP_SCAP_PROFILES),
                   resolve_scap_profile(p.scap_content,
                                        p.scap_content_profile, st[2]))
        s3 == Then(s2, Listing(EP_LOCATIONS),
                   resolve_ids(EP_LOCATIONS, p.locations[1], "name",
                               st[3], Locations))
        s4 == Then(s3, Listing(EP_ORGANIZATIONS),
                   resolve_ids(EP_ORGANIZATIONS, p.organizations[1], "name",
                               st[4], Organizations))
        s5 == IF TruthyList(p.hostgroups)
              THEN Then(s4, Listing(EP_HOSTGROUPS),
                        resolve_ids(EP_HOSTGROUPS, p.hostgroups[1], "title",
                                    st[5], Hostgroups))
              ELSE Then(s4, <<>>, Ok(<<>>))
    IN  IF ~s5.ok THEN s5
        ELSE [s5 EXCEPT !.vals = <<s5.vals[1], s5.vals[2], s5.vals[4],
                                   s5.vals[3], s5.vals[5]>>]

\* the five resolutions; st[k] is the status of the k-th listing
resolve_all(p, st) ==
    LET s0 == [ok |-> TRUE, vals |-> <<>>, msg |-> <<>>, reqs |-> <<>>]
        s1 == Then(s0, Listing(EP_SCAP_CONTENTS),
                   resolve_scap_content(p.scap_content, st[1]))
        s2 == Then(s1, Listing(EP_SCAP_PROFILES),
                   resolve_scap_profile(p.scap_content,
                                        p.scap_content_profile, st[2]))
        s3 == Then(s2, Listing(EP_ORGANIZATIONS),
                   resolve_ids(EP_ORGANIZATIONS, p.organizations[1], "name",
                               st[3], Organizations))
        s4 == Then(s3, Listing(EP_LOCATIONS),
                   resolve_ids(EP_LOCATIONS, p.locations[1], "name",
                               st[4], Locations))
    IN  IF TruthyList(p.hostgroups)
        THEN Then(s4, Listing(EP_HOSTGROUPS),
                  resolve_ids(EP_HOSTGROUPS, p.hostgroups[1], "title",
                              st[5], Hostgroups))
        ELSE Then(s4, <<>>, Ok(<<>>))

\* "x or default" of a str
OrStr(o, default) == IF TruthyStr(o) THEN o ELSE V(default)

\* the schedule keys added to the policy dict
schedule_fields(p) ==
    IF p.period = V("weekly") /\ TruthyStr(p.weekday)
    THEN [weekday |-> p.weekday]
    ELSE IF p.period = V("monthly") /\ TruthyInt(p.day_of_month)
    THEN [day_of_month |-> p.day_of_month]
    ELSE IF p.period = V("custom") /\ TruthyStr(p.cron_line)
    THEN [cron_line |-> p.cron_line]
    ELSE <<>>

\* the policy dict of the request body, from the parameters and resolved IDs
policy_dict(p, ids) ==
    Update(
    [name |-> p.name,
     description |-> OrStr(Get(p, "description", None), ""),
     scap_content_id |-> ids[1],
     scap_content_profile_id |-> ids[2],
     period |-> p.period,
     deploy_by |-> p.deploy_by,
     organization_ids |-> V(ids[3]),
     location_ids |-> V(ids[4]),
     hostgroup_ids |-> V(ids[5])],
    schedule_fields(p))

\* _build_policy_payload: [ok, val (the body), msg, reqs (the listings)]
build_policy_payload(p, st) ==
    LET r == resolve_all(p, st)
    IN  IF ~r.ok
        THEN [ok |-> FALSE, val |-> <<>>, msg |-> r.msg, reqs |-> r.reqs]
        ELSE [ok |-> TRUE, val |-> [policy |-> policy_dict(p, r.vals)],
              msg |-> <<>>, reqs |-> r.reqs]

\* existing_ids with the fault of leaving the IDs in the server's order
existing_ids_unsorted(existing, key) ==
    LET IdOf(o) == o.id[1]
    IN  Map(Get(existing, key, V(<<>>))[1], IdOf)

\* sorted([o['id'] for o in existing.get(key, [])])
existing_ids(existing, key) ==
    LET IdOf(o) == o.id[1]
    IN  sorted(Map(Get(existing, key, V(<<>>))[1], IdOf))

\* the list "checks" of _needs_update
checks(existing, desired) ==
    << Get(existing, "description", V("")) # Get(desired, "description", V("")),
       Get(existing, "scap_content_id", None)
           # Get(desired, "scap_content_id", None),
       Get(existing, "scap_content_profile_id", None)
           # Get(desired, "scap_content_profile_id", None),
       Get(existing, "period", None) # Get(desired, "period", None),
       Get(existing, "deploy_by", None) # Get(desired, "deploy_by", None) >>
    \o (IF Get(desired, "period", None) = V("weekly")
        THEN <<Get(existing, "weekday", None) # Get(desired, "weekday", None)>>
        ELSE IF Get(desired, "period", None) = V("monthly")
        THEN <<Get(existing, "day_of_month", None)
                  # Get(desired, "day_of_month", None)>>
        ELSE IF Get(desired, "period", None) = V("custom")
        THEN <<Get(existing, "cron_line", None)
                  # Get(desired, "cron_line", None)>>
        ELSE <<>>)
    \o << existing_ids(existing, "organizations")
              # sorted(Get(desired, "organization_ids", V(<<>>))[1]),
          existing_ids(existing, "locations")
              # sorted(Get(desired, "location_ids", V(<<>>))[1]),
          existing_ids(existing, "hostgroups")
              # sorted(Get(desired, "hostgroup_ids", V(<<>>))[1]) >>

\* any(list)
any(list) == \E k \in 1..Len(list) : list[k]

needs_update(existing, desired_policy) ==
    any(checks(existing, desired_policy.policy))

\* ---------------------------------------------------------------- the server
\* The server's representation of a policy it was sent: the *_ids lists come
\* back as lists of nested objects carrying an id.
Nested(ids) == LET Obj(n) == [id |-> V(n)] IN V(Map(ids[1], Obj))

AssocKeys == {"organization_ids", "location_ids", "hostgroup_ids"}

Stored(policy) ==
    Update([k \in DOMAIN policy \ AssocKeys |-> policy[k]],
           [organizations |-> Nested(policy.organization_ids),
            locations |-> Nested(policy.location_ids),
            hostgroups |-> Nested(policy.hostgroup_ids)])

RECURSIVE LargestId(_)
LargestId(listing) ==
    IF listing = <<>> THEN 0
    ELSE LET m == LargestId(Tail(listing))
         IN  IF Head(listing).id[1] > m THEN Head(listing).id[1] ELSE m

HasId(listing, id) == \E k \in 1..Len(listing) : listing[k].id = id

IsSuccess(status) == status >= 200 /\ status <= 299

\* The statuses the server can answer a request with, -1 being the transport's
\* report of a failed connection: a request for a policy that does not exist
\* is never answered with a 2xx.
Statuses(listing, req) ==
    IF req.method = "GET" THEN {200, 500, -1}
    ELSE IF req.method = "POST" THEN {201, 200, 422, -1}
    ELSE IF ~HasId(listing, req.id) THEN {404, -1}
    ELSE IF req.method = "PUT" THEN {200, 204, 422, -1}
    ELSE {200, 204, 201, 500, -1}

\* The policy a request creates or updates, as the server then holds it: a
\* POST stores what it was sent under a fresh id, a PUT replaces the
\* attributes it was sent of the policy with that id.
Written(listing, req) ==
    IF req.method = "POST"
    THEN Update(Stored(req.data[1].policy),
                [id |-> V(LargestId(listing) + 1)])
    ELSE LET HasIt(policy) == policy.id = req.id
         IN  Update(listing[FirstIndex(listing, HasIt)],
                    Stored(req.data[1].policy))

RECURSIVE Without(_, _)
Without(listing, id) ==
    IF listing = <<>> THEN <<>>
    ELSE IF Head(listing).id = id THEN Without(Tail(listing), id)
    ELSE <<Head(listing)>> \o Without(Tail(listing), id)

\* The store after the server answered req with status: a 2xx request took
\* effect exactly as asked, any other left the store alone.
Served(listing, req, status) ==
    IF ~IsSuccess(status) \/ req.method = "GET" THEN listing
    ELSE IF req.method = "POST" THEN Append(listing, Written(listing, req))
    ELSE IF req.method = "PUT"
    THEN [k \in 1..Len(listing) |->
            IF listing[k].id = req.id THEN Written(listing, req)
            ELSE listing[k]]
    ELSE Without(listing, req.id)

\* The parsed body of the response: the policy written, or an error object.
Body(listing, req, status) ==
    IF IsSuccess(status) /\ req.method \in {"POST", "PUT"}
    THEN Written(listing, req)
    ELSE [error |-> V([message |-> V("rejected")])]

\* ------------------------------------------------------------------- inputs
\* The parameters AnsibleModule accepts (argument_spec: types and choices),
\* over a few values of each.
ParamSpace ==
    [name : {V("P1")},
     state : {V("present"), V("absent")},
     description : {V(""), V("d"), None},
     scap_content : {V("C1"), V("C2"), V("Cx")},
     scap_content_profile : {V("prof-x"), V("prof-y"), V("prof-q")},
     deploy_by : {V("ansible"), V("manual")},
     period : {V("weekly"), V("monthly"), V("custom")},
     weekday : {None, V("monday")},
     day_of_month : {None, V(0), V(15)},
     cron_line : {None, V("0 9 * * *")},
     organizations : {V(<<"Org1", "Org2">>), V(<<"Org2", "Org1">>),
                      V(<<"Org1">>), V(<<"Org1", "Org2", "Org2">>),
                      V(<<"Org1", "OrgX">>)},
     locations : {V(<<"Loc1">>), V(<<"Loc2">>), V(<<"LocX">>)},
     hostgroups : {V(<<>>), V(<<"hg-base/hg-rhel-9">>),
                   V(<<"hg-base/hg-rhel-9", "hg-base">>), V(<<"hg-x">>)}]

\* required_if of the argument spec
required_if(p) ==
    /\ p.state = V("present") =>
          /\ p.scap_content # None /\ p.scap_content_profile # None
          /\ p.deploy_by # None /\ p.period # None
          /\ p.organizations # None /\ p.locations # None
    /\ p.period = V("weekly") => p.weekday # None
    /\ p.period = V("monthly") => p.day_of_month # None
    /\ p.period = V("custom") => p.cron_line # None

\* The desired state the others are variations of (the weekly scenario).
BaseParams ==
    [name |-> V("P1"), state |-> V("present"), description |-> V(""),
     scap_content |-> V("C1"), scap_content_profile |-> V("prof-x"),
     deploy_by |-> V("ansible"), period |-> V("weekly"),
     weekday |-> V("monday"), day_of_month |-> None, cron_line |-> None,
     organizations |-> V(<<"Org1", "Org2">>), locations |-> V(<<"Loc1">>),
     hostgroups |-> V(<<>>)]

ScheduleKeys == {"period", "weekday", "day_of_month", "cron_line"}

\* in how many parameters p differs from BaseParams, the schedule being one
Dev(p) ==
    Cardinality({k \in DOMAIN p \ ScheduleKeys : p[k] # BaseParams[k]})
    + (IF \E k \in ScheduleKeys : p[k] # BaseParams[k] THEN 1 ELSE 0)

DesiredStates == {p \in ParamSpace : required_if(p) /\ Dev(p) <= MaxDev}

\* The task that removes a policy: a name and state=absent, every other
\* parameter left at its default.
AbsentExample ==
    [name |-> V("P1"), state |-> V("absent"), description |-> V(""),
     scap_content |-> None, scap_content_profile |-> None,
     deploy_by |-> None, period |-> None,
     weekday |-> None, day_of_month |-> None, cron_line |-> None,
     organizations |-> None, locations |-> None, hostgroups |-> V(<<>>)]

\* Remote policies: R0 is BaseParams as the server holds it; R1 has the same
\* name, a monthly schedule, no description, the organizations in another
\* order and a hostgroup; R2 is a policy of another name.
R0 ==
    [id |-> V(7), name |-> V("P1"), description |-> V(""),
     scap_content_id |-> V(1), scap_content_profile_id |-> V(11),
     period |-> V("weekly"), weekday |-> V("monday"),
     deploy_by |-> V("ansible"),
     organizations |-> V(<<[id |-> V(1)], [id |-> V(2)]>>),
     locations |-> V(<<[id |-> V(3)]>>), hostgroups |-> V(<<>>)]

R1 ==
    [id |-> V(8), name |-> V("P1"),
     scap_content_id |-> V(1), scap_content_profile_id |-> V(11),
     period |-> V("monthly"), weekday |-> V("monday"),
     day_of_month |-> V(15), cron_line |-> None,
     deploy_by |-> V("ansible"),
     organizations |-> V(<<[id |-> V(2)], [id |-> V(1)]>>),
     locations |-> V(<<[id |-> V(3)]>>),
     hostgroups |-> V(<<[id |-> V(2)]>>)]

R2 ==
    [id |-> V(5), name |-> V("P2"), description |-> None,
     scap_content_id |-> V(2), scap_content_profile_id |-> V(22),
     period |-> V("custom"), cron_line |-> V("0 9 * * *"),
     deploy_by |-> V("manual"),
     organizations |-> V(<<[id |-> V(1)]>>),
     locations |-> V(<<[id |-> V(2)]>>)]

Stores == {<<>>, <<R0>>, <<R2, R1>>, <<R0, R1>>}

\* -------------------------------------------------------------------- state
VARIABLES
    params,      \* params[i]: module.params of invocation i
    check_mode,  \* check_mode[i]: module.check_mode of invocation i
    concurrent,  \* whether invocations may overlap
    policies,    \* the server's compliance policies, in listing order
    pc,          \* pc[i]: where invocation i is in run()
    existing,    \* existing[i]: what _find_policy returned
    payload,     \* payload[i]: what _build_policy_payload returned
    requests,    \* requests[i]: the requests invocation i has issued
    statuses,    \* statuses[i]: the status each of them was answered with
    outcome,     \* outcome[i]: its exit_json or fail_json
    before       \* before[i]: the server's policies when invocation i began

vars == <<params, check_mode, concurrent, policies, pc, existing, payload,
          requests, statuses, outcome, before>>

Running == [kind |-> "none", changed |-> FALSE, entity |-> <<>>, msg |-> <<>>]

\* module.exit_json(changed=..., entity={'compliance_policies': entity})
exit_json(changed, entity) ==
    [kind |-> "exit", changed |-> changed, entity |-> entity, msg |-> <<>>]

\* module.fail_json(msg=...)
fail_json(msg) ==
    [kind |-> "fail", changed |-> FALSE, entity |-> <<>>, msg |-> msg]

TypeOK ==
    /\ pc \in [Invs -> {"idle", "compare", "delete", "build", "create",
                       "update", "done"}]
    /\ check_mode \in [Invs -> BOOLEAN]
    /\ concurrent \in BOOLEAN
    /\ \A i \in Invs : outcome[i].kind \in {"none", "exit", "fail"}

InitLocals ==
    /\ check_mode = [i \in Invs |-> FALSE]
    /\ pc = [i \in Invs |-> "idle"]
    /\ existing = [i \in Invs |-> None]
    /\ payload = [i \in Invs |-> None]
    /\ requests = [i \in Invs |-> <<>>]
    /\ statuses = [i \in Invs |-> <<>>]
    /\ outcome = [i \in Invs |-> Running]
    /\ before = [i \in Invs |-> <<>>]

\* The same task run MaxRuns times, one run after the other.
Init ==
    /\ \E p \in DesiredStates \cup {AbsentExample} :
          params = [i \in Invs |-> p]
    /\ policies \in Stores
    /\ concurrent = FALSE
    /\ InitLocals

\* ---------------------------------------------------------------------- run
\* _api_request: a failed connection (status -1) is a fail_json, any other
\* status is returned with the parsed body
api_request(req, status, body) ==
    IF status = -1
    THEN Fail(<<"Connection to {0} failed", req.endpoint, req.id>>)
    ELSE Ok([status |-> status, result |-> body])

\* result.get('error', {}).get('message', result)
error_message(result) ==
    Get(Get(result, "error", V(<<>>))[1], "message", V(result))

Local(pcv, ex, pl, out) ==
    [pc |-> pcv, existing |-> ex, payload |-> pl, outcome |-> out]

\* run_find with the fault of testing check_mode before "existing is None"
run_find_check_first(p, cm, r) ==
    IF ~r.ok THEN Local("done", None, None, fail_json(r.msg))
    ELSE IF p.state = V("absent")
    THEN IF cm
         THEN Local("done", r.val, None, exit_json(TRUE, <<>>))
         ELSE IF r.val = None
         THEN Local("done", r.val, None, exit_json(FALSE, <<>>))
         ELSE Local("delete", r.val, None, Running)
    ELSE Local("build", r.val, None, Running)

\* run_find with the fault of reporting the deletion without requesting it
run_find_no_delete(p, cm, r) ==
    IF ~r.ok THEN Local("done", None, None, fail_json(r.msg))
    ELSE IF p.state = V("absent")
    THEN IF r.val = None
         THEN Local("done", r.val, None, exit_json(FALSE, <<>>))
         ELSE Local("done", r.val, None, exit_json(TRUE, <<>>))
    ELSE Local("build", r.val, None, Running)

\* run_find with the fault of going on after a failed listing of the policies
run_find_ignoring_failure(p, cm, r) ==
    IF ~r.ok THEN Local("build", None, None, Running)
    ELSE IF p.state = V("absent")
    THEN IF r.val = None
         THEN Local("done", r.val, None, exit_json(FALSE, <<>>))
         ELSE IF cm
         THEN Local("done", r.val, None, exit_json(TRUE, <<>>))
         ELSE Local("delete", r.val, None, Running)
    ELSE Local("build", r.val, None, Running)

\* run_find with the fault of building the payload before it looks at state
run_find_building_first(p, cm, r) ==
    IF ~r.ok THEN Local("done", None, None, fail_json(r.msg))
    ELSE Local("build", r.val, None, Running)

\* run() from its start to the return of _find_policy with r, and on to the
\* exit_json of the absent branch or to the next request
run_find(p, cm, r) ==
    IF ~r.ok THEN Local("done", None, None, fail_json(r.msg))
    ELSE IF p.state = V("absent")
    THEN IF r.val = None
         THEN Local("done", r.val, None, exit_json(FALSE, <<>>))
         ELSE IF cm
         THEN Local("done", r.val, None, exit_json(TRUE, <<>>))
         ELSE Local("delete", r.val, None, Running)
    ELSE Local("build", r.val, None, Running)

delete_request(ex) == Request("DELETE", EP_POLICIES, ex[1].id, None)

\* run() after the DELETE request returned r
run_delete(p, ex, r) ==
    IF ~r.ok THEN Local("done", ex, None, fail_json(r.msg))
    ELSE IF r.val.status \notin {200, 204}
    THEN Local("done", ex, None,
               fail_json(<<"Failed to delete policy '{0}': HTTP {1}",
                           p.name, r.val.status>>))
    ELSE Local("done", ex, None, exit_json(TRUE, <<>>))

\* run_build with the fault of not testing check_mode before the PUT
run_build_no_check(p, cm, ex, b) ==
    IF ~b.ok THEN Local("done", ex, None, fail_json(b.msg))
    ELSE IF ex = None
    THEN IF cm
         THEN Local("done", ex, V(b.val),
                    exit_json(TRUE, <<b.val.policy>>))
         ELSE Local("create", ex, V(b.val), Running)
    ELSE IF ~needs_update(ex[1], b.val)
    THEN Local("done", ex, V(b.val), exit_json(FALSE, <<ex[1]>>))
    ELSE Local("update", ex, V(b.val), Running)

\* run_build with the fault of testing check_mode before _needs_update
run_build_check_first(p, cm, ex, b) ==
    IF ~b.ok THEN Local("done", ex, None, fail_json(b.msg))
    ELSE IF cm
    THEN Local("done", ex, V(b.val), exit_json(TRUE, <<b.val.policy>>))
    ELSE IF ex = None
    THEN Local("create", ex, V(b.val), Running)
    ELSE IF ~needs_update(ex[1], b.val)
    THEN Local("done", ex, V(b.val), exit_json(FALSE, <<ex[1]>>))
    ELSE Local("update", ex, V(b.val), Running)

\* run() from _build_policy_payload, which returned b, to the exit_json of
\* a check-mode or unchanged run or to the POST or PUT request
run_build(p, cm, ex, b) ==
    IF ~b.ok THEN Local("done", ex, None, fail_json(b.msg))
    ELSE IF ex = None
    THEN IF cm
         THEN Local("done", ex, V(b.val),
                    exit_json(TRUE, <<b.val.policy>>))
         ELSE Local("create", ex, V(b.val), Running)
    ELSE IF ~needs_update(ex[1], b.val)
    THEN Local("done", ex, V(b.val), exit_json(FALSE, <<ex[1]>>))
    ELSE IF cm
    THEN Local("done", ex, V(b.val), exit_json(TRUE, <<b.val.policy>>))
    ELSE Local("update", ex, V(b.val), Running)

create_request(pl) == Request("POST", EP_POLICIES, None, pl)

\* run_create with the fault of reporting the payload it sent
run_create_reports_payload(p, ex, pl, r) ==
    IF ~r.ok THEN Local("done", ex, pl, fail_json(r.msg))
    ELSE IF r.val.status # 201
    THEN Local("done", ex, pl,
               fail_json(<<"Failed to create policy '{0}': HTTP {1} - {2}",
                           p.name, r.val.status,
                           error_message(r.val.result)>>))
    ELSE Local("done", ex, pl, exit_json(TRUE, <<pl[1].policy>>))

\* run_create with the fault of sending the POST again when it was refused
run_create_retrying(p, ex, pl, r) ==
    IF ~r.ok THEN Local("done", ex, pl, fail_json(r.msg))
    ELSE IF r.val.status # 201
    THEN Local("create", ex, pl, Running)
    ELSE Local("done", ex, pl, exit_json(TRUE, <<r.val.result>>))

\* run() after the POST request returned r
run_create(p, ex, pl, r) ==
    IF ~r.ok THEN Local("done", ex, pl, fail_json(r.msg))
    ELSE IF r.val.status # 201
    THEN Local("done", ex, pl,
               fail_json(<<"Failed to create policy '{0}': HTTP {1} - {2}",
                           p.name, r.val.status,
                           error_message(r.val.result)>>))
    ELSE Local("done", ex, pl, exit_json(TRUE, <<r.val.result>>))

\* update_request with the fault of sending the name, the description and
\* the associations only
update_request_partial(ex, pl) ==
    LET sent == {"name", "description"} \cup AssocKeys
    IN  Request("PUT", EP_POLICIES, ex[1].id,
                V([policy |-> [k \in sent |-> pl[1].policy[k]]]))

update_request(ex, pl) == Request("PUT", EP_POLICIES, ex[1].id, pl)

\* run_update with the fault of taking any 2xx status for a success
run_update_any_2xx(p, ex, pl, r) ==
    IF ~r.ok THEN Local("done", ex, pl, fail_json(r.msg))
    ELSE IF r.val.status < 200 \/ r.val.status > 299
    THEN Local("done", ex, pl,
               fail_json(<<"Failed to update policy '{0}': HTTP {1} - {2}",
                           p.name, r.val.status,
                           error_message(r.val.result)>>))
    ELSE Local("done", ex, pl, exit_json(TRUE, <<r.val.result>>))

\* run() after the PUT request returned r
run_update(p, ex, pl, r) ==
    IF ~r.ok THEN Local("done", ex, pl, fail_json(r.msg))
    ELSE IF r.val.status # 200
    THEN Local("done", ex, pl,
               fail_json(<<"Failed to update policy '{0}': HTTP {1} - {2}",
                           p.name, r.val.status,
                           error_message(r.val.result)>>))
    ELSE Local("done", ex, pl, exit_json(TRUE, <<r.val.result>>))

\* ------------------------------------------------------------------ actions
\* Invocation i moves to the local state next, having issued reqs, which
\* were answered with the statuses sts.
Step(i, next, reqs, sts) ==
    /\ pc' = [pc EXCEPT ![i] = next.pc]
    /\ existing' = [existing EXCEPT ![i] = next.existing]
    /\ payload' = [payload EXCEPT ![i] = next.payload]
    /\ outcome' = [outcome EXCEPT ![i] = next.outcome]
    /\ requests' = [requests EXCEPT ![i] = @ \o reqs]
    /\ statuses' = [statuses EXCEPT ![i] = @ \o sts]

Succeeded(i) == pc[i] = "done" /\ outcome[i].kind = "exit"

\* A play runs its tasks in order and ends at the first task that fails, so
\* an invocation begins once the ones before it have exited; invocations of
\* separate plays may overlap.
CanStart(i) ==
    \A j \in Invs : j < i => pc[j] # "idle" /\ (concurrent \/ Succeeded(j))

\* The status of each of the listings of _build_policy_payload: at most one
\* of them fails (the first failure ends the invocation).
ListingStatuses ==
    {[k \in 1..5 |-> 200]}
    \cup {[k \in 1..5 |-> IF k = j THEN s ELSE 200] :
            j \in 1..5, s \in {500, -1}}

\* Invocation i begins, in check mode or not, and looks for the policy.
FindPolicy(i) ==
    /\ pc[i] = "idle"
    /\ CanStart(i)
    /\ \E cm \in BOOLEAN :
         \E status \in Statuses(policies, Listing(EP_POLICIES)[1]) :
            /\ check_mode' = [check_mode EXCEPT ![i] = cm]
            /\ before' = [before EXCEPT ![i] = policies]
            /\ Step(i, run_find(params[i], cm,
                                find_policy(params[i].name, status, policies)),
                    Listing(EP_POLICIES), <<status>>)
    /\ UNCHANGED <<params, concurrent, policies>>

\* Invocation i issues req, the server answers it with one of its statuses
\* and run() goes on with the result.
Mutate(i, req, after(_)) ==
    \E status \in Statuses(policies, req) :
        /\ policies' = Served(policies, req, status)
        /\ Step(i, after(api_request(req, status,
                                     Body(policies, req, status))),
                <<req>>, <<status>>)
        /\ UNCHANGED <<params, check_mode, concurrent, before>>

Delete(i) ==
    /\ pc[i] = "delete"
    /\ LET after(r) == run_delete(params[i], existing[i], r)
       IN  Mutate(i, delete_request(existing[i]), after)

BuildPayload(i) ==
    /\ pc[i] = "build"
    /\ \E st \in ListingStatuses :
          LET b == build_policy_payload(params[i], st)
          IN  Step(i, run_build(params[i], check_mode[i], existing[i], b),
                   b.reqs, SubSeq(st, 1, Len(b.reqs)))
    /\ UNCHANGED <<params, check_mode, concurrent, policies, before>>

Create(i) ==
    /\ pc[i] = "create"
    /\ LET after(r) == run_create(params[i], existing[i], payload[i], r)
       IN  Mutate(i, create_request(payload[i]), after)

UpdatePolicy(i) ==
    /\ pc[i] = "update"
    /\ LET after(r) == run_update(params[i], existing[i], payload[i], r)
       IN  Mutate(i, update_request(existing[i], payload[i]), after)

Next ==
    \E i \in Invs :
        \/ FindPolicy(i)
        \/ Delete(i)
        \/ BuildPayload(i)
        \/ Create(i)
        \/ UpdatePolicy(i)

Spec == Init /\ [][Next]_vars


\* ------------------------------------------------- invocations that overlap
\* The desired states of operators at work on the same policy: BaseParams
\* with another description, another deploy_by, or state=absent.
RaceStates ==
    {BaseParams,
     Update(BaseParams, [description |-> V("d")]),
     Update(BaseParams, [deploy_by |-> V("manual")]),
     Update(BaseParams, [state |-> V("absent")])}

\* Tasks of separate plays, each with its own desired state, run against the
\* same server with nothing to order them.
InitRace ==
    /\ params \in [Invs -> RaceStates]
    /\ policies \in {<<>>, <<R0>>}
    /\ concurrent = TRUE
    /\ InitLocals

SpecRace == InitRace /\ [][Next]_vars

\* ------------------------------------------------ invocations that must end
\* The same task run MaxRuns times, one run after the other, for the desired
\* states of RaceStates and one with a hostgroup the server does not have.
InitFair ==
    /\ \E p \in RaceStates
               \cup {Update(BaseParams, [hostgroups |-> V(<<"hg-x">>)])} :
          params = [i \in Invs |-> p]
    /\ policies \in Stores
    /\ concurrent = FALSE
    /\ InitLocals

\* fetch_url returns (a connection that fails or times out is reported with
\* the status -1) and the module computes on, so an invocation that can take
\* its next step takes it.
SpecFair == InitFair /\ [][Next]_vars /\ WF_vars(Next)

\* ------------------------------------------------- the diff on drawn inputs
\* the rearrangements of a list
Perms(list) ==
    {[k \in 1..Len(list) |-> list[f[k]]] : f \in Permutations(1..Len(list))}

\* the association lists of a remote policy and the lists of IDs of a
\* payload they are compared with, in the order of the list "checks"
Assoc ==
    << <<"organizations", "organization_ids">>,
       <<"locations", "location_ids">>,
       <<"hostgroups", "hostgroup_ids">> >>

With(d, k, v) == Update(d, [x \in {k} |-> v])
RemoteList(ex, n) == Get(ex, Assoc[n][1], V(<<>>))[1]
DesiredList(pl, n) == Get(pl.policy, Assoc[n][2], V(<<>>))[1]
Reordered(ex, n, list) == With(ex, Assoc[n][1], V(list))
Desiring(pl, n, list) == [policy |-> With(pl.policy, Assoc[n][2], V(list))]
IdsOf(list) == LET IdOf(o) == o.id[1] IN Map(list, IdOf)

\* the mismatch _needs_update finds in the n-th association list
AssocMismatch(ex, pl, n) ==
    LET c == checks(ex, pl.policy) IN c[Len(c) - 3 + n]

\* the lists of at most n IDs
RECURSIVE Lists(_)
Lists(n) ==
    IF n = 0 THEN {<<>>}
    ELSE Lists(n - 1)
         \cup {Append(list, id) : list \in Lists(n - 1), id \in 1..MaxId}

\* the payload _build_policy_payload returns for BaseParams
BasePayload ==
    [policy |->
        [name |-> V("P1"), description |-> V(""),
         scap_content_id |-> V(1), scap_content_profile_id |-> V(11),
         period |-> V("weekly"), deploy_by |-> V("ansible"),
         organization_ids |-> V(<<1, 2>>), location_ids |-> V(<<3>>),
         hostgroup_ids |-> V(<<>>), weekday |-> V("monday")]]

\* Invocation 1 is about to compare a remote policy with a payload: R0 and
\* BasePayload, but for one association list of each and the description.
InitDiff ==
    /\ params = [i \in Invs |-> BaseParams]
    /\ concurrent = FALSE
    /\ check_mode = [i \in Invs |-> FALSE]
    /\ requests = [i \in Invs |-> <<>>]
    /\ statuses = [i \in Invs |-> <<>>]
    /\ outcome = [i \in Invs |-> Running]
    /\ pc = [i \in Invs |-> IF i = 1 THEN "compare" ELSE "idle"]
    /\ \E n \in 1..3 :
         \E remote \in Lists(MaxLen) :
            \E desired \in Lists(MaxLen) :
               \E description \in {V(""), V("d")} :
                  LET ex == Reordered(R0, n, Nested(V(remote))[1])
                      pl == Desiring([policy |-> With(BasePayload.policy,
                                          "description", description)],
                                     n, desired)
                  IN  /\ policies = <<ex>>
                      /\ before = [i \in Invs |-> <<ex>>]
                      /\ existing = [i \in Invs |->
                                        IF i = 1 THEN V(ex) ELSE None]
                      /\ payload = [i \in Invs |->
                                        IF i = 1 THEN V(pl) ELSE None]

\* run() from the return of _build_policy_payload on, for the policy found
\* and the payload at hand
Compare(i) ==
    /\ pc[i] = "compare"
    /\ \E cm \in BOOLEAN :
          /\ check_mode' = [check_mode EXCEPT ![i] = cm]
          /\ Step(i, run_build(params[i], cm, existing[i],
                               [ok |-> TRUE, val |-> payload[i][1],
                                msg |-> <<>>, reqs |-> <<>>]),
                  <<>>, <<>>)
    /\ UNCHANGED <<params, concurrent, policies, before>>

NextDiff == \E i \in Invs : Compare(i)

SpecDiff == InitDiff /\ [][NextDiff]_vars

\* ------------------------------------ the payload builder on drawn inputs
\* the lists of at most n of the names
RECURSIVE NameLists(_, _)
NameLists(names, n) ==
    IF n = 0 THEN {<<>>}
    ELSE NameLists(names, n - 1)
         \cup {Append(list, name) : list \in NameLists(names, n - 1),
                                    name \in names}

\* The references a task can name: known and unknown ones, in any order.
References ==
    [scap_content : {V("C1"), V("C2"), V("Cx")},
     scap_content_profile : {V("prof-x"), V("prof-y"), V("prof-q")},
     organizations :
         {V(list) : list \in NameLists({"Org1", "Org2", "OrgX", "OrgY"},
                                       MaxLen)},
     locations : {V(<<"Loc1">>), V(<<"LocX">>)},
     hostgroups : {V(<<>>), V(<<"hg-base/hg-rhel-9">>), V(<<"hg-x">>)}]

\* Invocation 1 has found no policy and is about to build the payload of
\* BaseParams with other references.
InitBuild ==
    /\ \E refs \in References :
          params = [i \in Invs |-> Update(BaseParams, refs)]
    /\ policies = <<>>
    /\ concurrent = FALSE
    /\ check_mode = [i \in Invs |-> FALSE]
    /\ pc = [i \in Invs |-> IF i = 1 THEN "build" ELSE "idle"]
    /\ existing = [i \in Invs |-> None]
    /\ payload = [i \in Invs |-> None]
    /\ requests = [i \in Invs |-> <<>>]
    /\ statuses = [i \in Invs |-> <<>>]
    /\ outcome = [i \in Invs |-> Running]
    /\ before = [i \in Invs |-> <<>>]

NextBuild == \E i \in Invs : BuildPayload(i)

SpecBuild == InitBuild /\ [][NextBuild]_vars

\* ------------------------------------------------------------------- claims
Done(i) == pc[i] = "done"
Started(i) == pc[i] # "idle"
Present(i) == params[i].state = V("present")
Absent(i) == params[i].state = V("absent")

\* the POST, PUT and DELETE requests invocation i has issued
Mutations(i) == SelectSeq(requests[i], IsMutating)
Methods(reqs) == [k \in 1..Len(reqs) |-> reqs[k].method]

\* whether the listing holds a policy of that name
Holds(listing, name) == \E k \in 1..Len(listing) : listing[k].name = name

\* invocations i and i+1 both ran to a success report, one after the other
TwoRuns(i) == i + 1 \in Invs /\ Succeeded(i) /\ Succeeded(i + 1)

\* C1: two runs in sequence in apply mode with the same desired state, the
\* first of which finds something to change: the first reports changed=true,
\* the second reports changed=false and issues no POST, PUT or DELETE.
C1_Idempotent ==
    \A i \in Invs :
        (TwoRuns(i) /\ ~check_mode[i] /\ ~check_mode[i + 1]
            /\ outcome[i].changed)
        => (~outcome[i + 1].changed /\ Mutations(i + 1) = <<>>)

\* C2: an invocation in check mode issues no POST, PUT or DELETE on any
\* branch, and the server's policies are as they were when it began.
C2_DryRunIssuesNoMutation ==
    \A i \in Invs :
        (Started(i) /\ check_mode[i])
        => /\ Mutations(i) = <<>>
           /\ pc[i] \notin {"delete", "create", "update"}
           /\ (\A j \in Invs : j > i => ~Started(j)) => policies = before[i]

\* a finished check-mode invocation that found the policy, built a payload
\* that differs and reported changed=true
C2_Witness ==
    \E i \in Invs :
        /\ Done(i) /\ check_mode[i] /\ Present(i)
        /\ existing[i] # None /\ payload[i] # None
        /\ outcome[i].kind = "exit" /\ outcome[i].changed

\* C3: a check-mode run followed by an apply run from the same store and
\* with the same desired state, both ending in a success report, report the
\* same changed flag.
C3_DryRunReportsSameChanged ==
    \A i \in Invs :
        (TwoRuns(i) /\ check_mode[i] /\ ~check_mode[i + 1]
            /\ before[i] = before[i + 1] /\ params[i] = params[i + 1])
        => outcome[i].changed = outcome[i + 1].changed

\* a check-mode run and then an apply run that updated the policy
C3_Witness ==
    \E i \in Invs :
        /\ TwoRuns(i) /\ check_mode[i] /\ ~check_mode[i + 1]
        /\ before[i] = before[i + 1]
        /\ outcome[i + 1].changed
        /\ Methods(Mutations(i + 1)) = <<"PUT">>

\* The references of p that no object of the server's inventories answers.
NoContent(p) ==
    \A k \in 1..Len(ScapContents) : ScapContents[k].title # p.scap_content
NoProfile(p) ==
    \A k \in 1..Len(ScapContentProfiles) :
        \/ ScapContentProfiles[k].profile_id # p.scap_content_profile
        \/ "scap_content" \notin DOMAIN ScapContentProfiles[k]
        \/ ScapContentProfiles[k].scap_content[1].title # p.scap_content
Unknown(names, listing, key) ==
    \E n \in 1..Len(names) :
        \A k \in 1..Len(listing) : listing[k][key] # names[n]
Unresolved(p) ==
    \/ NoContent(p)
    \/ NoProfile(p)
    \/ Unknown(p.organizations[1], Organizations, "name")
    \/ Unknown(p.locations[1], Locations, "name")
    \/ Unknown(p.hostgroups[1], Hostgroups, "title")

\* C4: with state=present and a reference that does not resolve, the
\* invocation issues no POST, PUT or DELETE and ends in a failure report.
C4_UnresolvedReferenceAborts ==
    \A i \in Invs :
        (Present(i) /\ Unresolved(params[i]))
        => /\ Mutations(i) = <<>>
           /\ pc[i] \notin {"delete", "create", "update"}
           /\ Done(i) => outcome[i].kind = "fail"

\* an apply-mode invocation that found the policy and failed on a hostgroup
C4_Witness ==
    \E i \in Invs :
        /\ Done(i) /\ Present(i) /\ ~check_mode[i] /\ existing[i] # None
        /\ Unknown(params[i].hostgroups[1], Hostgroups, "title")
        /\ outcome[i].kind = "fail"
        /\ outcome[i].msg[1] = "Could not find {0} '{1}' at {2}"

\* C5: with state=absent and no policy of that name on the server, the
\* invocation issues no POST, PUT or DELETE, reports changed=false with an
\* empty policy list, and fails only if the listing of the policies failed.
C5_AbsentAndNotFound ==
    \A i \in Invs :
        (Started(i) /\ Absent(i) /\ ~Holds(before[i], params[i].name))
        => /\ Mutations(i) = <<>>
           /\ Done(i)
           /\ ~outcome[i].changed /\ outcome[i].entity = <<>>
           /\ outcome[i].kind = "fail" => statuses[i] # <<200>>

\* an apply-mode and a check-mode run that found nothing to delete
C5_Witness ==
    /\ \A i \in Invs : Succeeded(i) /\ Absent(i) /\ ~outcome[i].changed
    /\ \E i, j \in Invs : check_mode[i] /\ ~check_mode[j]

\* the schedule key that period selects
ActiveKey(p) ==
    IF p.period = V("weekly") THEN "weekday"
    ELSE IF p.period = V("monthly") THEN "day_of_month"
    ELSE "cron_line"

\* C6: every payload built holds exactly one of the keys weekday,
\* day_of_month and cron_line, the one that period selects, with the value
\* the caller gave for it.
C6_ExactlyOneScheduleKey ==
    \A i \in Invs :
        payload[i] # None =>
            LET policy == payload[i][1].policy
                key == ActiveKey(params[i])
            IN  /\ DOMAIN policy \cap {"weekday", "day_of_month", "cron_line"}
                      = {key}
                /\ policy[key] = params[i][key]

\* C7: wherever run() compares a remote policy with a payload, no
\* rearrangement of an association list of either changes the result of
\* _needs_update, and a list of desired IDs that is a rearrangement of the
\* remote IDs is no mismatch.
C7_OrderInsensitive ==
    \A i \in Invs :
        (existing[i] # None /\ payload[i] # None) =>
            LET ex == existing[i][1]
                pl == payload[i][1]
            IN  \A n \in 1..3 :
                  /\ \A list \in Perms(RemoteList(ex, n)) :
                        needs_update(Reordered(ex, n, list), pl)
                            = needs_update(ex, pl)
                  /\ \A list \in Perms(DesiredList(pl, n)) :
                        needs_update(ex, Desiring(pl, n, list))
                            = needs_update(ex, pl)
                  /\ \A list \in Perms(IdsOf(RemoteList(ex, n))) :
                        ~AssocMismatch(ex, Desiring(pl, n, list), n)

\* the remote organizations [1, 2] compared with the desired [2, 1], and the
\* run ending unchanged
C7_Witness ==
    \E i \in Invs :
        /\ pc[i] = "done" /\ outcome[i].kind = "exit" /\ ~outcome[i].changed
        /\ existing[i] # None /\ payload[i] # None
        /\ IdsOf(RemoteList(existing[i][1], 1)) = <<1, 2>>
        /\ DesiredList(payload[i][1], 1) = <<2, 1>>

Range(list) == {list[k] : k \in 1..Len(list)}

\* the scalar fields and the active schedule field are equal
ScalarsEqual(ex, pl) ==
    LET c == checks(ex, pl.policy)
    IN  \A k \in 1..(Len(c) - 3) : ~c[k]

\* C8: with the scalar fields equal, _needs_update is false exactly when
\* each association list of the remote policy holds the same set of IDs as
\* the desired list.
C8_AssociationsComparedAsSets ==
    \A i \in Invs :
        (existing[i] # None /\ payload[i] # None
            /\ ScalarsEqual(existing[i][1], payload[i][1]))
        => (needs_update(existing[i][1], payload[i][1])
            <=> \E n \in 1..3 :
                  Range(IdsOf(RemoteList(existing[i][1], n)))
                      # Range(DesiredList(payload[i][1], n)))

\* what the transition table gives for the desired state (absent), the
\* locator's result (found), the diff and the mode
Table(absent, found, diff, dry) ==
    IF absent
    THEN IF ~found THEN [action |-> <<>>, changed |-> FALSE]
         ELSE IF dry THEN [action |-> <<>>, changed |-> TRUE]
         ELSE [action |-> <<"DELETE">>, changed |-> TRUE]
    ELSE IF ~found
         THEN IF dry THEN [action |-> <<>>, changed |-> TRUE]
              ELSE [action |-> <<"POST">>, changed |-> TRUE]
         ELSE IF ~diff THEN [action |-> <<>>, changed |-> FALSE]
         ELSE IF dry THEN [action |-> <<>>, changed |-> TRUE]
         ELSE [action |-> <<"PUT">>, changed |-> TRUE]

\* C9: an invocation that ends in a success report has issued exactly the
\* request and reports exactly the changed flag of the transition table.
C9_TransitionTable ==
    \A i \in Invs :
        Succeeded(i) =>
            LET found == Holds(before[i], params[i].name)
                diff == /\ Present(i) /\ found
                        /\ needs_update(existing[i][1], payload[i][1])
                row == Table(Absent(i), found, diff, check_mode[i])
            IN  /\ Methods(Mutations(i)) = row.action
                /\ outcome[i].changed = row.changed

\* an apply-mode run that updated the policy and then a check-mode run that
\* found it as desired
C9_Witness ==
    /\ Succeeded(1) /\ ~check_mode[1] /\ Succeeded(2) /\ check_mode[2]
    /\ Present(1) /\ Methods(Mutations(1)) = <<"PUT">>
    /\ ~outcome[2].changed

Unexpected(method, status) ==
    \/ method = "POST" /\ status # 201
    \/ method = "PUT" /\ status # 200
    \/ method = "DELETE" /\ status \notin {200, 204}

\* C10: a POST, PUT or DELETE answered with an unexpected status is the
\* last request of its invocation, which ends in a failure report.
C10_UnexpectedStatusIsFatal ==
    \A i \in Invs :
        \A k \in 1..Len(requests[i]) :
            Unexpected(requests[i][k].method, statuses[i][k])
            => /\ k = Len(requests[i])
               /\ Done(i)
               /\ outcome[i].kind = "fail"
               /\ ~outcome[i].changed

\* a PUT answered 204, which the server took for a success
C10_Witness ==
    \E i \in Invs :
        /\ Done(i) /\ outcome[i].kind = "fail"
        /\ requests[i][Len(requests[i])].method = "PUT"
        /\ statuses[i][Len(requests[i])] = 204
        /\ policies # before[i]

\* the body the server answered the last request of invocation i with
Returned(i) ==
    LET k == Len(requests[i])
    IN  Body(before[i], requests[i][k], statuses[i][k])

\* the policies of that name in the listing, in its order
Located(listing, name) ==
    LET Named(policy) == policy.name = name
    IN  SelectSeq(listing, Named)

\* C11: a success report carries the changed flag and the snapshot of its
\* branch: no policy for state=absent; for state=present the body the server
\* returned when a POST or PUT was issued, the policy dict of the built
\* payload when a change was only simulated, and the remote policy as it was
\* found when nothing needs to change.
C11_SnapshotOfTheBranch ==
    \A i \in Invs :
        Succeeded(i) =>
            /\ outcome[i].changed \in BOOLEAN
            /\ outcome[i].entity =
                 IF Absent(i) THEN <<>>
                 ELSE IF Mutations(i) # <<>> THEN <<Returned(i)>>
                 ELSE IF outcome[i].changed THEN <<payload[i][1].policy>>
                 ELSE <<Head(Located(before[i], params[i].name))>>

\* the four kinds of snapshot: a policy created and reported as the server
\* holds it, and then found as desired by a run in check mode
C11_Witness ==
    /\ Succeeded(1) /\ Succeeded(2) /\ Present(1)
    /\ Methods(Mutations(1)) = <<"POST">>
    /\ outcome[1].entity = <<policies[Len(policies)]>>
    /\ "id" \in DOMAIN outcome[1].entity[1]
    /\ check_mode[2] /\ ~outcome[2].changed
    /\ outcome[2].entity = outcome[1].entity

\* the requests of invocation i that name one policy in their path
Targeted(i) ==
    LET OnOne(r) == r.method \in {"DELETE", "PUT"}
    IN  SelectSeq(requests[i], OnOne)

\* C12: every DELETE and PUT goes to policies/{id}, the id being that of the
\* first policy in the listing this invocation fetched whose name is the
\* desired name; no other policy and nothing but an id is ever in the path.
C12_TargetsTheLocatedId ==
    \A i \in Invs :
        \A k \in 1..Len(Targeted(i)) :
            LET req == Targeted(i)[k]
                found == Located(before[i], params[i].name)
            IN  /\ req.endpoint = EP_POLICIES
                /\ found # <<>>
                /\ req.id = Head(found).id
                /\ req.id # None
                /\ \A n \in 1..Len(before[i]) :
                      before[i][n].name # params[i].name
                      => before[i][n].id # req.id

\* a PUT to the first of two policies of the desired name, which leaves the
\* second as it was
C12_Witness ==
    \E i \in Invs :
        /\ Done(i) /\ Len(Located(before[i], params[i].name)) = 2
        /\ Methods(Targeted(i)) = <<"PUT">>
        /\ Targeted(i)[1].id = before[i][1].id
        /\ policies[1] # before[i][1]
        /\ policies[2] = before[i][2]

ScalarKeys == {"scap_content_id", "scap_content_profile_id", "period",
               "deploy_by"}
WritableKeys == {"name", "description"} \cup ScalarKeys \cup AssocKeys

\* the individual mismatches between a remote policy and a payload: a scalar
\* field, the schedule field of the desired period, a set of associated IDs
Mismatch(ex, pl) ==
    \/ Get(ex, "description", V("")) # Get(pl.policy, "description", V(""))
    \/ \E k \in ScalarKeys : Get(ex, k, None) # Get(pl.policy, k, None)
    \/ Get(ex, ActiveKey(pl.policy), None)
          # Get(pl.policy, ActiveKey(pl.policy), None)
    \/ \E n \in 1..3 :
          Range(IdsOf(RemoteList(ex, n))) # Range(DesiredList(pl, n))

\* values of a schedule field
ScheduleValues(k) ==
    IF k = "weekday" THEN {None, V("monday"), V("friday")}
    ELSE IF k = "day_of_month" THEN {None, V(1), V(15)}
    ELSE {None, V("0 9 * * *"), V("@daily")}

\* no value of a schedule field other than the one of the desired period, on
\* either side, changes the result of _needs_update
InactiveIgnored(ex, pl) ==
    \A k \in {"weekday", "day_of_month", "cron_line"}
               \ {ActiveKey(pl.policy)} :
        \A v \in ScheduleValues(k) :
            /\ needs_update(With(ex, k, v), pl) = needs_update(ex, pl)
            /\ needs_update(ex, [policy |-> With(pl.policy, k, v)])
                  = needs_update(ex, pl)

\* the PUT carries every writable field and the desired schedule value
FullPayload(p, req) ==
    /\ req.data # None
    /\ WritableKeys \subseteq DOMAIN req.data[1].policy
    /\ ActiveKey(p) \in DOMAIN req.data[1].policy
    /\ req.data[1].policy[ActiveKey(p)] = p[ActiveKey(p)]

\* C13: _needs_update is true exactly when one of the individual mismatches
\* holds, whatever the inactive schedule fields are; and an apply-mode run
\* for which it is true issues exactly one PUT, with the whole payload.
C13_AnyMismatchFullUpdate ==
    \A i \in Invs :
        (Present(i) /\ existing[i] # None /\ payload[i] # None) =>
            LET ex == existing[i][1]
                pl == payload[i][1]
            IN  /\ needs_update(ex, pl) <=> Mismatch(ex, pl)
                /\ InactiveIgnored(ex, pl)
                /\ (needs_update(ex, pl) /\ ~check_mode[i] /\ Succeeded(i))
                   => /\ Methods(Mutations(i)) = <<"PUT">>
                      /\ Mutations(i)[1].data = payload[i]
                      /\ FullPayload(params[i], Mutations(i)[1])

\* the collections of the references, in the order the spec gives
ResolutionOrder ==
    <<EP_SCAP_CONTENTS, EP_SCAP_PROFILES, EP_ORGANIZATIONS, EP_LOCATIONS,
      EP_HOSTGROUPS>>

\* the positions in requests[i] of the listings of those collections
ResolutionIndex(i) ==
    {k \in 1..Len(requests[i]) : requests[i][k].endpoint # EP_POLICIES}

\* the collections invocation i has listed to resolve references, in order
Resolutions(i) ==
    LET OfReference(r) == r.endpoint # EP_POLICIES
        EndpointOf(r) == r.endpoint
    IN  Map(SelectSeq(requests[i], OfReference), EndpointOf)

\* invocation i has been through _build_policy_payload
Built(i) ==
    Present(i) /\ pc[i] \in {"create", "update", "done"}
               /\ Resolutions(i) # <<>>

\* the place in ResolutionOrder of the first reference of p that nothing on
\* the server answers, 0 when all of them resolve
FirstUnresolved(p) ==
    IF NoContent(p) THEN 1
    ELSE IF NoProfile(p) THEN 2
    ELSE IF Unknown(p.organizations[1], Organizations, "name") THEN 3
    ELSE IF Unknown(p.locations[1], Locations, "name") THEN 4
    ELSE IF Unknown(p.hostgroups[1], Hostgroups, "title") THEN 5
    ELSE 0

\* the place in ResolutionOrder of the reference a failure message is about
Blamed(msg) ==
    IF msg[1] = "SCAP content '{0}' not found" THEN 1
    ELSE IF msg[1] = "SCAP profile '{0}' not found in content '{1}'" THEN 2
    ELSE IF msg[1] = "Could not find {0} '{1}' at {2}"
    THEN CHOOSE k \in 3..5 : ResolutionOrder[k] = msg[4]
    ELSE 0

\* C14: the listings of the payload builder are issued in the order
\* scap_contents, scap_content_profiles, organizations, locations,
\* hostgroups; when a reference does not resolve, the failure reported is the
\* one of the first such reference in that order and no later collection has
\* been listed.
C14_ResolutionOrder ==
    \A i \in Invs :
        Built(i) =>
            LET listed == Resolutions(i)
                first == FirstUnresolved(params[i])
            IN  /\ Len(listed) <= Len(ResolutionOrder)
                /\ listed = SubSeq(ResolutionOrder, 1, Len(listed))
                /\ first # 0 => Len(listed) <= first
                /\ (first # 0 /\ \A k \in ResolutionIndex(i) :
                                     statuses[i][k] = 200)
                   => /\ Len(listed) = first
                      /\ outcome[i].kind = "fail"
                      /\ Blamed(outcome[i].msg) = first

\* unknown organizations, an unknown location and an unknown hostgroup: the
\* failure is about the organizations and the locations were never listed
C14_Witness ==
    \E i \in Invs :
        /\ Built(i) /\ outcome[i].kind = "fail"
        /\ FirstUnresolved(params[i]) = 3
        /\ Unknown(params[i].locations[1], Locations, "name")
        /\ Unknown(params[i].hostgroups[1], Hostgroups, "title")
        /\ Blamed(outcome[i].msg) = 3
        /\ Resolutions(i) = SubSeq(ResolutionOrder, 1, 3)

\* the profiles of the server's inventory with that id
ProfilesWithId(id) ==
    LET HasId15(profile) == profile.id = id
    IN  SelectSeq(ScapContentProfiles, HasId15)

\* the profile belongs to the SCAP content with the id content_id
BelongsTo(profile, content_id) ==
    /\ "scap_content" \in DOMAIN profile
    /\ profile.scap_content[1].id = content_id

\* the id of the SCAP content that _resolve_scap_content resolves title to
ResolvedContent(title) ==
    LET Titled(content) == content.title = title
    IN  Head(SelectSeq(ScapContents, Titled)).id

\* the inventory has a profile with that profile identifier under the content
\* with that id
ProfileUnder(profile_id, content_id) ==
    \E k \in 1..Len(ScapContentProfiles) :
        /\ Get(ScapContentProfiles[k], "profile_id", None) = profile_id
        /\ BelongsTo(ScapContentProfiles[k], content_id)

\* C15: in every payload built the profile with the id scap_content_profile_id
\* belongs to the SCAP content with the id scap_content_id, and a profile
\* identifier that the resolved content does not have ends the invocation
\* with the failure of the profile lookup.
C15_ProfileScopedToContent ==
    \A i \in Invs :
        /\ (Present(i) /\ payload[i] # None) =>
              LET policy == payload[i][1].policy
                  found == ProfilesWithId(policy.scap_content_profile_id)
              IN  /\ Len(found) = 1
                  /\ BelongsTo(found[1], policy.scap_content_id)
        /\ (/\ Built(i)
            /\ \A k \in ResolutionIndex(i) : statuses[i][k] = 200
            /\ ~NoContent(params[i])
            /\ ~ProfileUnder(params[i].scap_content_profile,
                             ResolvedContent(params[i].scap_content)))
           => /\ outcome[i].kind = "fail"
              /\ Blamed(outcome[i].msg) = 2
              /\ payload[i] = None

\* the three uses of _resolve_ids: the parameter with the names, the key of
\* the payload with the IDs, the collection and its key field
Resolved ==
    << [names |-> "organizations", ids |-> "organization_ids",
        endpoint |-> EP_ORGANIZATIONS, collection |-> Organizations,
        key |-> "name"],
       [names |-> "locations", ids |-> "location_ids",
        endpoint |-> EP_LOCATIONS, collection |-> Locations, key |-> "name"],
       [names |-> "hostgroups", ids |-> "hostgroup_ids",
        endpoint |-> EP_HOSTGROUPS, collection |-> Hostgroups,
        key |-> "title"] >>

\* the collection has an item with that key and that id
Item(collection, key, name, id) ==
    \E k \in 1..Len(collection) :
        collection[k][key] = name /\ collection[k].id = id

\* the first of the names that no item of the collection has as its key
FirstUnmatched(names, collection, key) ==
    LET missing == {n \in 1..Len(names) :
                       \A k \in 1..Len(collection) :
                           collection[k][key] # names[n]}
    IN  names[CHOOSE n \in missing : \A m \in missing : n <= m]

\* C16: the IDs _resolve_ids returns are as many as the names, the i-th being
\* the ID of an item whose key is the i-th name; when a name matches no item
\* it returns nothing and fails with the message for the first such name.
C16_ResolveIdsInOrder ==
    \A i \in Invs :
        Built(i) =>
            \A u \in 1..Len(Resolved) :
                LET names == params[i][Resolved[u].names][1]
                    collection == Resolved[u].collection
                    key == Resolved[u].key
                IN  /\ payload[i] # None =>
                          LET ids == payload[i][1].policy[Resolved[u].ids][1]
                          IN  /\ Len(ids) = Len(names)
                              /\ \A n \in 1..Len(names) :
                                    Item(collection, key, names[n], ids[n])
                    /\ (/\ FirstUnresolved(params[i]) = u + 2
                        /\ \A k \in ResolutionIndex(i) : statuses[i][k] = 200)
                       => /\ payload[i] = None
                          /\ outcome[i].kind = "fail"
                          /\ outcome[i].msg =
                                <<"Could not find {0} '{1}' at {2}", key,
                                  FirstUnmatched(names, collection, key),
                                  Resolved[u].endpoint>>

\* the organizations Org2, Org1 resolved to the IDs 2, 1
C16_Witness ==
    \E i \in Invs :
        /\ Built(i) /\ payload[i] # None
        /\ params[i].organizations = V(<<"Org2", "Org1">>)
        /\ payload[i][1].policy.organization_ids = V(<<2, 1>>)
        /\ params[i].hostgroups # V(<<>>)

\* the remote policy agrees with the payload in every field of the payload
Agrees(policy, pl) ==
    LET sent == Stored(pl.policy)
    IN  \A k \in DOMAIN sent : k \in DOMAIN policy /\ policy[k] = sent[k]

\* invocation i has updated the policy it found: its PUT was answered 200
Updated(i) ==
    /\ Succeeded(i) /\ Present(i) /\ Methods(Mutations(i)) = <<"PUT">>

\* invocations i and j read the same remote policy and both updated it, and
\* no other invocation has written
Raced(i, j) ==
    /\ i # j /\ concurrent
    /\ Updated(i) /\ Updated(j)
    /\ existing[i] = existing[j]
    /\ payload[i] # payload[j]
    /\ \A k \in Invs \ {i, j} : Mutations(k) = <<>>

\* the policy of that id as the server holds it
Remote(id) ==
    LET HasIt(policy) == policy.id = id
    IN  Head(SelectSeq(policies, HasIt))

\* C17: when two overlapping apply-mode invocations with different desired
\* attributes have read the same remote policy and both have updated it, both
\* have sent a PUT to that policy and reported changed=true, and the remote
\* policy is the payload of one of them, the update of the other being lost.
C17_LastWriterWins ==
    \A i, j \in Invs :
        Raced(i, j) =>
            /\ outcome[i].changed /\ outcome[j].changed
            /\ Mutations(i)[1].id = existing[i][1].id
            /\ Mutations(j)[1].id = existing[i][1].id
            /\ Mutations(i)[1].data = payload[i]
            /\ \E w \in {i, j} :
                  /\ Agrees(Remote(existing[i][1].id), payload[w][1])
                  /\ \A o \in {i, j} \ {w} :
                        ~Agrees(Remote(existing[i][1].id), payload[o][1])

\* the invocation that began first wrote last: the description that the
\* second invocation wrote and reported is gone
C17_Witness ==
    /\ Raced(1, 2)
    /\ before[1] = before[2]
    /\ payload[2][1].policy.description = V("d")
    /\ outcome[2].changed
    /\ outcome[2].entity[1].description = V("d")
    /\ Agrees(Remote(existing[1][1].id), payload[1][1])
    /\ Remote(existing[1][1].id).description = V("")

\* the request failed: no connection, a listing not answered 200, or a
\* status the mutating call does not expect
FailedRequest(req, status) ==
    \/ status = -1
    \/ req.method = "GET" /\ status # 200
    \/ Unexpected(req.method, status)

\* a failed request is the last of its invocation, which has reported the
\* failure; an invocation has reported iff it is over
NoRetry ==
    \A i \in Invs :
        /\ Done(i) <=> outcome[i].kind \in {"exit", "fail"}
        /\ ~Done(i) => outcome[i] = Running
        /\ \A k \in 1..Len(requests[i]) :
              FailedRequest(requests[i][k], statuses[i][k])
              => /\ k = Len(requests[i])
                 /\ Done(i)
                 /\ outcome[i].kind = "fail"

\* an invocation that has reported takes no further step
OneOutcome ==
    \A i \in Invs :
        outcome[i] # Running
        => /\ outcome'[i] = outcome[i]
           /\ requests'[i] = requests[i]
           /\ pc'[i] = pc[i]

\* C18: every invocation that begins ends, with one success or one failure
\* report that it never replaces; a request that failed is followed by no
\* other request of that invocation, and the invocation reports a failure.
C18_OneOutcomeNoRetry ==
    /\ []NoRetry
    /\ [][OneOutcome]_vars
    /\ <>Done(1)
    /\ \A i \in Invs : Started(i) ~> Done(i)

\* the connection failed at the listing of the locations, after four
\* listings answered 200: the invocation is over with that failure
C18_Witness ==
    \E i \in Invs :
        /\ Done(i) /\ outcome[i].kind = "fail"
        /\ Len(requests[i]) = 5
        /\ requests[i][5].endpoint = EP_LOCATIONS
        /\ statuses[i] = <<200, 200, 200, 200, -1>>
        /\ outcome[i].msg[1] = "Connection to {0} failed"

\* C19: an invocation issues at most one POST, PUT or DELETE; it is the last
\* of its requests, all requests before it are listings, the first of them
\* that of the policies, and the invocation is over once it is answered.
C19_OneMutationLast ==
    \A i \in Invs :
        /\ Len(Mutations(i)) <= 1
        /\ \A k \in 1..Len(requests[i]) :
              IF IsMutating(requests[i][k])
              THEN /\ k = Len(requests[i])
                   /\ k > 1
                   /\ Done(i)
              ELSE /\ requests[i][k].method = "GET"
                   /\ requests[i][k].id = None
                   /\ (k = 1) <=> (requests[i][k].endpoint = EP_POLICIES)

\* the listing of the policies, the five listings of the references and
\* then the PUT
C19_Witness ==
    \E i \in Invs :
        /\ Done(i) /\ Len(requests[i]) = 7
        /\ Methods(requests[i])
              = <<"GET", "GET", "GET", "GET", "GET", "GET", "PUT">>
        /\ Resolutions(i) = ResolutionOrder

\* C20: with state=absent the invocation lists the policies and then sends at
\* most one DELETE; it lists no collection of references and builds no
\* payload, so whatever its references are it does not fail on one of them,
\* and what it reports follows from the listing of the policies alone.
C20_AbsentResolvesNothing ==
    \A i \in Invs :
        Absent(i) =>
            /\ Methods(requests[i]) \in {<<>>, <<"GET">>, <<"GET", "DELETE">>}
            /\ \A k \in 1..Len(requests[i]) :
                  requests[i][k].endpoint = EP_POLICIES
            /\ Resolutions(i) = <<>>
            /\ pc[i] \notin {"build", "create", "update"}
            /\ payload[i] = None
            /\ outcome[i].kind = "fail" => Blamed(outcome[i].msg) = 0
            /\ outcome[i].kind = "exit"
               => /\ outcome[i].entity = <<>>
                  /\ outcome[i].changed = Holds(before[i], params[i].name)

\* the task that gives a name and state=absent only, so that none of its
\* references could be resolved, has deleted the policy
C20_Witness ==
    \E i \in Invs :
        /\ Succeeded(i) /\ params[i] = AbsentExample
        /\ params[i].scap_content = None /\ params[i].organizations = None
        /\ Methods(requests[i]) = <<"GET", "DELETE">>
        /\ outcome[i].changed
        /\ ~HasId(policies, requests[i][2].id)
====
